---- MODULE Spec2Model ----
(***************************************************************************)
(* A model of the errors-framework library: the BaseError class hierarchy  *)
(* of src/errors.ts (construction, headline, detailToString, toString,     *)
(* generateRef, the two static flags) and the ErrorConfigs catalog of      *)
(* src/errors.js together with the ServiceError path that consumes it.     *)
(*                                                                         *)
(* JavaScript strings are TLA+ strings (Len, \o and SubSeq apply to them); *)
(* every other JavaScript value is a record tagged by its field k.         *)
(***************************************************************************)
EXTENDS Integers, Sequences, FiniteSets

VARIABLES
    addDebugInfoToMessage,  \* BaseError.addDebugInfoToMessage (static)
    addDetailsToMessage,    \* BaseError.addDetailsToMessage (static)
    stringColors,           \* what "str"["cyan"] evaluates to in this process
    err,                    \* the error instance under observation
    out,                    \* the last toString() call on err
    detail,                 \* input of a detailToString call
    rendered,               \* result of the last detailToString call
    catalog,                \* the ErrorConfigs instance shared by all callers
    svc,                    \* the last ServiceError constructed
    calls                   \* number of ServiceError constructions so far

vars == <<addDebugInfoToMessage, addDetailsToMessage, stringColors, err, out,
          detail, rendered, catalog, svc, calls>>

-----------------------------------------------------------------------------
(* Bounds of the model. *)

\* Math.random() is k / RandDenom for a k in 0 .. RandDenom - 1
RandDenom == 1000

\* longest array handed to detailToString
MaxArrayLen == 3

\* ServiceError constructions in one behaviour
MaxCalls == 2

-----------------------------------------------------------------------------
(* JavaScript values. *)

Undefined == [k |-> "undefined"]
Null == [k |-> "null"]
Bool(b) == [k |-> "boolean", b |-> b]
Num(n) == [k |-> "number", n |-> n]
Str(s) == [k |-> "string", s |-> s]
Arr(items) == [k |-> "array", items |-> items]
\* a plain object: its own enumerable properties in insertion order
Obj(entries) == [k |-> "object", entries |-> entries]
\* a generic Error (not a BaseError)
Exc(name, message, stack) ==
    [k |-> "Error", name |-> name, message |-> message, stack |-> stack]

IsBaseError(v) == v.k = "BaseError"

\* JavaScript truthiness (ToBoolean)
Truthy(v) ==
    CASE v.k = "undefined" -> FALSE
      [] v.k = "null" -> FALSE
      [] v.k = "boolean" -> v.b
      [] v.k = "number" -> v.n # 0
      [] v.k = "string" -> v.s # ""
      [] OTHER -> TRUE

-----------------------------------------------------------------------------
(* Strings. *)

\* s.charAt(i), zero-based; the empty string outside the string
charAt(s, i) == IF 0 <= i /\ i < Len(s) THEN SubSeq(s, i + 1, i + 1) ELSE ""

\* sub occurs in s
Contains(s, sub) ==
    \E i \in 1..(Len(s) - Len(sub) + 1) : SubSeq(s, i, i + Len(sub) - 1) = sub

StartsWith(s, p) == Len(p) <= Len(s) /\ SubSeq(s, 1, Len(p)) = p

RECURSIVE NumberToString(_)
\* Number.prototype.toString for a non-negative integer
NumberToString(n) ==
    IF n < 10 THEN charAt("0123456789", n)
    ELSE NumberToString(n \div 10) \o charAt("0123456789", n % 10)

RECURSIVE join(_, _)
\* Array.prototype.join on an array of strings
join(strs, sep) ==
    IF Len(strs) = 0 THEN ""
    ELSE IF Len(strs) = 1 THEN strs[1]
    ELSE strs[1] \o sep \o join(Tail(strs), sep)

-----------------------------------------------------------------------------
(* The enums of src/errors.ts. *)

ErrorType ==
    [operation |-> "operationError", rule |-> "ruleViolation",
     apiCall |-> "apiCallError", security |-> "securityViolation",
     connection |-> "connectionError", user |-> "userError",
     deviceOp |-> "deviceOpError", unhandledRejection |-> "unhandledRejection",
     uncaughtException |-> "uncaughtException", noOp |-> "noOp"]

consoleTextColor == [error |-> "red", details |-> "cyan", debugInfo |-> "green"]

ConnectionType ==
    {"local area network", "internet", "remote process", "database"}

-----------------------------------------------------------------------------
(* Conversions to string. *)

\* the property lookup "..."[color] on a string primitive: undefined unless
\* String.prototype carries the colour accessors, which nothing in this
\* library installs; where they are installed they return the string
\* unchanged (colours disabled) or wrapped in the ANSI codes of the colour
StringProperty(s, color) ==
    CASE stringColors = "absent" -> Undefined
      [] stringColors = "plain" -> Str(s)
      [] stringColors = "ansi" ->
            Str((IF color = "cyan" THEN "\\x1b[36m"
                 ELSE IF color = "green" THEN "\\x1b[32m"
                 ELSE "\\x1b[31m") \o s \o "\\x1b[39m")

RECURSIVE ToJSString(_), detailToString(_), BaseError_toString(_), headline(_)

\* a class that does not override the getter inherits the one of BaseError
headline_Inherited(e) == ""

\* get headline() of the instance's class
headline(e) ==
    CASE e.cls = "OpError" ->
            "Internal operation \"" \o e.componentName \o "." \o e.opName
                \o "()\" failed"
      [] e.cls = "NoOpError" ->
            "Internal operation \"" \o e.componentName \o "." \o e.opName
                \o "()\" failed"
      [] e.cls = "RuleViolationError" ->
            "Internal rule \"" \o e.rule \o "\" was violated"
      [] e.cls = "SecurityRuleViolation" ->
            "Security rule \"" \o e.rule \o "\" was violated"
      [] e.cls = "APICallError" ->
            "API call to " \o e.service \o " endpoint \"" \o e.endpoint
                \o "\" failed"
      [] e.cls = "ConnectionError" ->
            "Could not establish " \o e.connectionType \o " connection"
      [] e.cls = "NotImplementedError" -> "Feature not yet implemented"
      [] e.cls = "UserError" ->
            "User error \"" \o e.type \o "\""
                \o (IF Truthy(e.details) THEN " " \o ToJSString(e.details)
                    ELSE "")
      [] e.cls = "DeviceOpError" ->
            "Device operation error \"" \o e.type \o "\""
                \o (IF Truthy(e.details) THEN " " \o ToJSString(e.details)
                    ELSE "")
      [] e.cls = "UnhandledRejection" -> "Unhandled error occured in a promise"
      [] e.cls = "UncaughtException" -> "Uncaught exception"
      [] OTHER ->
            \* a plain object holds its headline as a property; a class that
            \* does not override the getter inherits the one of BaseError
            IF e.k = "IBaseError" THEN e.headline ELSE ""

\* the string conversion of a value: v.toString(), `${v}` and s += v
ToJSString(v) ==
    CASE v.k = "undefined" -> "undefined"
      [] v.k = "null" -> "null"
      [] v.k = "boolean" -> IF v.b THEN "true" ELSE "false"
      [] v.k = "number" -> NumberToString(v.n)
      [] v.k = "string" -> v.s
      [] v.k = "array" ->
            join([i \in 1..Len(v.items) |->
                    IF v.items[i].k \in {"undefined", "null"} THEN ""
                    ELSE ToJSString(v.items[i])], ",")
      [] v.k = "object" -> "[object Object]"
      [] v.k = "Error" ->
            IF v.name = "" THEN v.message
            ELSE IF v.message = "" THEN v.name
            ELSE v.name \o ": " \o v.message
      [] v.k = "BaseError" -> BaseError_toString(v)

\* detailToString joining the elements of an array as it joins the entries of
\* a record
detailToString_CommaJoin(d) ==
    IF d.k = "array" THEN
        join([i \in 1..Len(d.items) |-> detailToString(d.items[i])], ", ")
    ELSE IF IsBaseError(d) THEN
        BaseError_toString(d)
    ELSE IF d.k = "Error" THEN
        IF d.stack # "" THEN d.stack ELSE ToJSString(d)
    ELSE IF d.k = "object" THEN
        join([i \in 1..Len(d.entries) |->
                d.entries[i][1] \o ": " \o detailToString(d.entries[i][2])],
             ", ")
    ELSE
        IF Truthy(d) THEN ToJSString(d) ELSE ""

\* detailToString converting the values of a record without recursion
detailToString_ShallowValues(d) ==
    IF d.k = "array" THEN
        join([i \in 1..Len(d.items) |-> detailToString(d.items[i])], " & ")
    ELSE IF IsBaseError(d) THEN
        BaseError_toString(d)
    ELSE IF d.k = "Error" THEN
        IF d.stack # "" THEN d.stack ELSE ToJSString(d)
    ELSE IF d.k = "object" THEN
        join([i \in 1..Len(d.entries) |->
                d.entries[i][1] \o ": " \o ToJSString(d.entries[i][2])],
             ", ")
    ELSE
        IF Truthy(d) THEN ToJSString(d) ELSE ""

\* detailToString converting a generic exception without looking at its stack
detailToString_IgnoresStack(d) ==
    IF d.k = "array" THEN
        join([i \in 1..Len(d.items) |-> detailToString(d.items[i])], " & ")
    ELSE IF IsBaseError(d) THEN
        BaseError_toString(d)
    ELSE IF d.k = "Error" THEN
        ToJSString(d)
    ELSE IF d.k = "object" THEN
        join([i \in 1..Len(d.entries) |->
                d.entries[i][1] \o ": " \o detailToString(d.entries[i][2])],
             ", ")
    ELSE
        IF Truthy(d) THEN ToJSString(d) ELSE ""

\* detailToString converting every scalar, the falsy ones included
detailToString_StringifiesFalsy(d) ==
    IF d.k = "array" THEN
        join([i \in 1..Len(d.items) |-> detailToString(d.items[i])], " & ")
    ELSE IF IsBaseError(d) THEN
        BaseError_toString(d)
    ELSE IF d.k = "Error" THEN
        IF d.stack # "" THEN d.stack ELSE ToJSString(d)
    ELSE IF d.k = "object" THEN
        join([i \in 1..Len(d.entries) |->
                d.entries[i][1] \o ": " \o detailToString(d.entries[i][2])],
             ", ")
    ELSE
        ToJSString(d)

\* BaseError.detailToString
detailToString(d) ==
    IF d.k = "array" THEN
        join([i \in 1..Len(d.items) |-> detailToString(d.items[i])], " & ")
    ELSE IF IsBaseError(d) /\ d.cls = "UnhandledRejection" THEN
        BaseError_toString(d)
    ELSE IF IsBaseError(d) THEN
        BaseError_toString(d)
    ELSE IF d.k = "Error" THEN
        IF d.stack # "" THEN d.stack ELSE ToJSString(d)
    ELSE IF d.k = "object" THEN
        join([i \in 1..Len(d.entries) |->
                d.entries[i][1] \o ": " \o detailToString(d.entries[i][2])],
             ", ")
    ELSE
        IF Truthy(d) THEN ToJSString(d) ELSE ""

\* the details appended without the test of e.details
detailsPart_Unconditional(e) ==
    ToJSString(StringProperty("\n" \o detailToString(e.details),
                              consoleTextColor.details))

\* what toString appends for e.details
detailsPart(e) ==
    IF Truthy(e.details)
    THEN ToJSString(StringProperty("\n" \o detailToString(e.details),
                                   consoleTextColor.details))
    ELSE ""

\* the debug info appended without the test of the flag
debugInfoPart_Unflagged(e) ==
    IF Truthy(e.debugInfo)
    THEN ToJSString(StringProperty("\n" \o detailToString(e.debugInfo) \o "\n",
                                   consoleTextColor.debugInfo))
    ELSE ""

\* what toString appends for e.debugInfo
debugInfoPart(e) ==
    IF Truthy(e.debugInfo) /\ addDebugInfoToMessage
    THEN ToJSString(StringProperty("\n" \o detailToString(e.debugInfo) \o "\n",
                                   consoleTextColor.debugInfo))
    ELSE ""

\* a toString without the fallback branches: the concatenation in every case
BaseError_toString_NoFallback(e) ==
    headline(e) \o detailsPart(e) \o debugInfoPart(e)

\* static BaseError.toString(e); the instance method toString() calls it
BaseError_toString(e) ==
    IF headline(e) # "" \/ Truthy(e.details) \/ Truthy(e.debugInfo) THEN
        headline(e) \o detailsPart(e) \o debugInfoPart(e)
    ELSE IF e.cls # "" THEN e.cls
    ELSE "[object Object]"

\* a reference held by an array or a record to the array or record itself
\* or to one that encloses it
BackReference == [k |-> "cycle"]

\* a plain object implementing IBaseError; cls is the name of its constructor
PlainError(cls, headlineText, details, debugInfo) ==
    [k |-> "IBaseError", cls |-> cls, headline |-> headlineText,
     details |-> details, debugInfo |-> debugInfo]

RECURSIVE Overflows(_)
\* the rendering of v recurses without end, and the engine raises RangeError
\* when the call stack is exhausted: detailToString follows a back reference
\* again and again, and BaseError.toString(e) of an instance of this library
\* with no headline, details, debugInfo or constructor name calls
\* e.toString(), which is BaseError.toString(e) again
Overflows(v) ==
    CASE v.k = "cycle" -> TRUE
      [] v.k = "array" -> \E i \in 1..Len(v.items) : Overflows(v.items[i])
      [] v.k = "object" ->
            \E i \in 1..Len(v.entries) : Overflows(v.entries[i][2])
      [] v.k \in {"BaseError", "IBaseError"} ->
            IF headline(v) # "" \/ Truthy(v.details) \/ Truthy(v.debugInfo)
            THEN \/ Truthy(v.details) /\ Overflows(v.details)
                 \/ /\ Truthy(v.debugInfo) /\ addDebugInfoToMessage
                    /\ Overflows(v.debugInfo)
            ELSE v.k = "BaseError" /\ v.cls = ""
      [] OTHER -> FALSE

\* what a call of a rendering function yields: the string it returns, or the
\* RangeError it raises
Rendering(v, text) ==
    IF Overflows(v)
    THEN [called |-> TRUE, thrown |-> TRUE,
          debugFlag |-> addDebugInfoToMessage]
    ELSE [called |-> TRUE, thrown |-> FALSE, result |-> text,
          debugFlag |-> addDebugInfoToMessage]

-----------------------------------------------------------------------------
(* Construction. *)

RECURSIVE refLetters(_, _, _), refDigits(_, _, _)
RECURSIVE refLetters_OffByOne(_, _, _)
RECURSIVE refDigits_TenDigits(_, _, _)

\* the first loop scaling by one more than the length of the alphabet
refLetters_OffByOne(rnd, i, ref) ==
    IF i < 3
    THEN refLetters_OffByOne(rnd, i + 1,
            ref \o charAt("ABCDEFGHIJKLMNOPQRSTUVWXYZ",
                          (rnd[i + 1] * (Len("ABCDEFGHIJKLMNOPQRSTUVWXYZ") + 1))
                              \div RandDenom))
    ELSE ref

\* first loop of generateRef: rnd[i + 1] is the i-th value of Math.random()
refLetters(rnd, i, ref) ==
    IF i < 3
    THEN refLetters(rnd, i + 1,
            ref \o charAt("ABCDEFGHIJKLMNOPQRSTUVWXYZ",
                          (rnd[i + 1] * Len("ABCDEFGHIJKLMNOPQRSTUVWXYZ"))
                              \div RandDenom))
    ELSE ref

\* the second loop scaling by ten, so that every decimal digit is drawn
refDigits_TenDigits(rnd, i, ref) ==
    IF i < 3
    THEN refDigits_TenDigits(rnd, i + 1,
            ref \o NumberToString((rnd[3 + i + 1] * 10) \div RandDenom))
    ELSE ref

\* second loop of generateRef
refDigits(rnd, i, ref) ==
    IF i < 3
    THEN refDigits(rnd, i + 1,
            ref \o NumberToString((rnd[3 + i + 1] * 9) \div RandDenom))
    ELSE ref

\* BaseError.generateRef, on the six values Math.random() returns
generateRef(rnd) == refDigits(rnd, 0, refLetters(rnd, 0, ""))

Merge(r1, r2) ==
    [x \in DOMAIN r1 \cup DOMAIN r2 |-> IF x \in DOMAIN r2 THEN r2[x] ELSE r1[x]]

\* constructor of BaseError, called through super(...) by class cls
BaseError(cls, type, details, debugInfo, rnd) ==
    [k |-> "BaseError",
     cls |-> cls,
     message |-> IF Truthy(addDetailsToMessage) /\ Truthy(details)
                 THEN "[" \o type \o "] " \o ToJSString(details)
                 ELSE type,
     type |-> type,
     details |-> details,
     debugInfo |-> debugInfo,
     errorRef |-> generateRef(rnd)]

OpError(componentName, opName, details, debugInfo, rnd) ==
    Merge(BaseError("OpError", ErrorType.operation, details, debugInfo, rnd),
          [opName |-> opName, componentName |-> componentName])

NoOpError(componentName, opName, details, debugInfo, rnd) ==
    Merge(BaseError("NoOpError", ErrorType.noOp, details, debugInfo, rnd),
          [opName |-> opName, componentName |-> componentName])

RuleViolationError(rule, details, debugInfo, rnd) ==
    Merge(BaseError("RuleViolationError", ErrorType.rule, details, debugInfo,
                    rnd),
          [rule |-> rule])

SecurityRuleViolation(rule, details, debugInfo, rnd) ==
    Merge(BaseError("SecurityRuleViolation", ErrorType.security, details,
                    debugInfo, rnd),
          [rule |-> rule])

APICallError(service, endpoint, details, rnd) ==
    Merge(BaseError("APICallError", ErrorType.apiCall, details, Undefined, rnd),
          [service |-> service, endpoint |-> endpoint])

ConnectionError(connectionType, details, debugInfo, rnd) ==
    Merge(BaseError("ConnectionError", ErrorType.connection, details,
                    debugInfo, rnd),
          [connectionType |-> connectionType])

\* NotImplementedError carrying a type tag of its own
NotImplementedError_OwnType(rnd) ==
    BaseError("NotImplementedError", "notImplemented", Undefined, Undefined,
              rnd)

NotImplementedError(rnd) ==
    BaseError("NotImplementedError", ErrorType.operation, Undefined, Undefined,
              rnd)

UserError(category, details, debugInfo, rnd) ==
    Merge(BaseError("UserError", ErrorType.user, details, debugInfo, rnd),
          [category |-> category])

DeviceOpError(componentName, opName, category, deviceOS, details, debugInfo, rnd) ==
    Merge(BaseError("DeviceOpError", ErrorType.deviceOp, details, debugInfo,
                    rnd),
          [componentName |-> componentName, opName |-> opName,
           deviceOS |-> deviceOS, category |-> category])

UnhandledRejection(error, rnd) ==
    BaseError("UnhandledRejection", ErrorType.unhandledRejection, error,
              Undefined, rnd)

UncaughtException(error, rnd) ==
    BaseError("UncaughtException", ErrorType.uncaughtException, error,
              Undefined, rnd)

-----------------------------------------------------------------------------
(* The error catalog of src/errors.js. *)

\* the field initialisers of class ErrorConfigs
ErrorConfigEntries ==
    [ createFailed |->
        [code |-> 600001, httpResponseCode |-> 400, category |-> "Info",
         message |-> "Unable to create {context}"],
     createOperationNotPermitted |->
        [code |-> 600002, httpResponseCode |-> 403, category |-> "Info",
         message |-> "Not permitted to create {context}"],
     deleteFailed |->
        [code |-> 600003, httpResponseCode |-> 400, category |-> "Info",
         message |-> "Unable to delete {context}"],
     deleteOperationNotPermitted |->
        [code |-> 600004, httpResponseCode |-> 403, category |-> "Info",
         message |-> "Not permitted to delete {context}"],
     invalidData |->
        [code |-> 600005, httpResponseCode |-> 400, category |-> "Info",
         message |-> "Invalid or malformed data please try again"],
     lookupFailed |->
        [code |-> 600006, httpResponseCode |-> 400, category |-> "Info",
         message |-> "Unable to lookup {context}"],
     lookupOperationNotPermitted |->
        [code |-> 600007, httpResponseCode |-> 403, category |-> "Info",
         message |-> "Not permitted to lookup {context}"],
     operationFailed |->
        [code |-> 600008, httpResponseCode |-> 400, category |-> "Info",
         message |-> "Unable to perform {operation} operation"],
     operationNotPermitted |->
        [code |-> 600009, httpResponseCode |-> 403, category |-> "Info",
         message |-> "Insufficient permission to perform {operation} operation"],
     updateFailed |->
        [code |-> 600010, httpResponseCode |-> 400, category |-> "Info",
         message |-> "Unable to update {context}"],
     updateOperationNotPermitted |->
        [code |-> 600011, httpResponseCode |-> 403, category |-> "Info",
         message |-> "Not permitted to update {context}"],
     uploadFailed |->
        [code |-> 600012, httpResponseCode |-> 400, category |-> "Info",
         message |-> "Unable to upload {context}"],
     uploadOperationNotPermitted |->
        [code |-> 600013, httpResponseCode |-> 403, category |-> "Info",
         message |-> "Not permitted to upload {context}"],
     upsertFailed |->
        [code |-> 600014, httpResponseCode |-> 400, category |-> "Info",
         message |-> "Unable to upsert {context}"],
     upsertOperationNotPermitted |->
        [code |-> 600015, httpResponseCode |-> 403, category |-> "Info",
         message |-> "Not permitted to upsert {context}"],
     recordAlreadyExists |->
        [code |-> 600016, httpResponseCode |-> 405, category |-> "Info",
         message |-> "{context} record already exists"],
     recordAlreadyImported |->
        [code |-> 600017, httpResponseCode |-> 405, category |-> "Info",
         message |-> "{context} record already imported"],
     recordDoesNotBelongToUser |->
        [code |-> 600018, httpResponseCode |-> 403, category |-> "Info",
         message |-> "{context} record does not belong to you"],
     recordDoesNotExist |->
        [code |-> 600019, httpResponseCode |-> 204, category |-> "Info",
         message |-> "{context} record does not exist. Contact Support (support@scalamed.com) for help"],
     serviceNotEnabled |->
        [code |-> 600020, httpResponseCode |-> 405, category |-> "Info",
         message |-> "{service} resource is not available"],
     unknownError |->
        [code |-> 600021, httpResponseCode |-> 500, category |-> "Info",
         message |-> "Unknown error"],
     noDownloadableRx |->
        [code |-> 616022, httpResponseCode |-> 204, category |-> "Rx",
         message |-> "There are no prescriptions to download"],
     rxCancellationError |->
        [code |-> 616023, httpResponseCode |-> 400, category |-> "Rx",
         message |-> "Unable to cancel requested prescription"],
     rxCreationTrialOnlyError |->
        [code |-> 616024, httpResponseCode |-> 400, category |-> "Rx",
         message |-> "Unable to create trial prescription"],
     rxDownloadTokenAlreadyRedeemed |->
        [code |-> 616025, httpResponseCode |-> 405, category |-> "Rx",
         message |-> "Prescription download token has already been redeemed"],
     requestRxDownloadTokenFailed |->
        [code |-> 616026, httpResponseCode |-> 400, category |-> "Rx",
         message |-> "Unable to generate download token"],
     redeemRxDownloadTokenFailed |->
        [code |-> 616027, httpResponseCode |-> 400, category |-> "Rx",
         message |-> "Unable to redeem token"],
     rxFilledAlready |->
        [code |-> 617028, httpResponseCode |-> 405, category |-> "RxFill",
         message |-> "Prescription has already been filled"],
     rxCancelFailed |->
        [code |-> 618029, httpResponseCode |-> 400, category |-> "RxTransaction",
         message |-> "Unable to cancel prescription"],
     rxCancelFailedUnknown |->
        [code |-> 618030, httpResponseCode |-> 400, category |-> "RxTransaction",
         message |-> "Unable to cancel prescription"],
     rxCompleteTxFailed |->
        [code |-> 618031, httpResponseCode |-> 400, category |-> "RxTransaction",
         message |-> "Unable to complete prescription transaction"],
     rxCompleteTxFailedUnknown |->
        [code |-> 618032, httpResponseCode |-> 400, category |-> "RxTransaction",
         message |-> "Unable to complete prescription transaction"],
     userDoesNotBelongToOrganisation |->
        [code |-> 623033, httpResponseCode |-> 403, category |-> "User",
         message |-> "User does not belong to requested organisation"],
     authTokenExpired |->
        [code |-> 623034, httpResponseCode |-> 400, category |-> "User",
         message |-> "Bearer token has expired"],
     blockedAccount |->
        [code |-> 623035, httpResponseCode |-> 403, category |-> "User",
         message |-> "User account is blocked"],
     canceledAccount |->
        [code |-> 623036, httpResponseCode |-> 403, category |-> "User",
         message |-> "User account has been cancelled"],
     emailVerificationAlreadyDone |->
        [code |-> 623037, httpResponseCode |-> 405, category |-> "User",
         message |-> "Email Verification is already done"],
     emailVerificationCodeExpired |->
        [code |-> 623038, httpResponseCode |-> 412, category |-> "User",
         message |-> "Email verification code has expired"],
     emailVerificationCodeInvalid |->
        [code |-> 623039, httpResponseCode |-> 412, category |-> "User",
         message |-> "Email verification code is invalid"],
     insufficientPermissions |->
        [code |-> 623040, httpResponseCode |-> 403, category |-> "User",
         message |-> "Insufficient permission to access this resource"],
     invalidAuthToken |->
        [code |-> 623041, httpResponseCode |-> 412, category |-> "User",
         message |-> "Supplied bearer token is invalid"],
     invalidLogin |->
        [code |-> 623042, httpResponseCode |-> 412, category |-> "User",
         message |-> "Invalid login credentials"],
     invalidPasswordResetCode |->
        [code |-> 623043, httpResponseCode |-> 412, category |-> "User",
         message |-> "Password reset code is invalid"],
     operationNotAllowed |->
        [code |-> 623044, httpResponseCode |-> 405, category |-> "User",
         message |-> "{operation} operation is not allowed"],
     passwordComplexity |->
        [code |-> 623045, httpResponseCode |-> 412, category |-> "User",
         message |-> "Invalid Password. Please check the requirements above."],
     passwordResetCodeHasExpired |->
        [code |-> 623046, httpResponseCode |-> 412, category |-> "User",
         message |-> "Password reset code has expired"],
     passwordResetOperationNotAllowed |->
        [code |-> 623047, httpResponseCode |-> 405, category |-> "User",
         message |-> "Password reset is not allowed"],
     permissionNotGranted |->
        [code |-> 623048, httpResponseCode |-> 403, category |-> "User",
         message |-> "Unable to grant sufficient access"],
     priorAccountWithEmail |->
        [code |-> 623049, httpResponseCode |-> 412, category |-> "User",
         message |-> "Different user with given email already exists"],
     priorAccountWithTelecom |->
        [code |-> 623050, httpResponseCode |-> 412, category |-> "User",
         message |-> "Different user with given telecom already exists"],
     userUpsertWhenEmailIsVerifiedNotAllowed |->
        [code |-> 623051, httpResponseCode |-> 412, category |-> "User",
         message |-> "User upsert is not allowed when email is already verified"],
     wrongDob |->
        [code |-> 623052, httpResponseCode |-> 412, category |-> "User",
         message |-> "Incorrect date of birth provided"],
     wrongDobOrTelecom |->
        [code |-> 623053, httpResponseCode |-> 412, category |-> "User",
         message |-> "Incorrect dob and/ or telecom provided"],
     wrongTelecom |->
        [code |-> 623054, httpResponseCode |-> 412, category |-> "User",
         message |-> "Incorrect telecom of birth provided"],
     responderNotPermitted |->
        [code |-> 620055, httpResponseCode |-> 403, category |-> "SituationResponder",
         message |-> "responderNotPermitted"],
     situationTypeNotPermitted |->
        [code |-> 620056, httpResponseCode |-> 403, category |-> "SituationResponder",
         message |-> "situationTypeNotPermitted"],
     telecomExtensionNotAllowed |->
        [code |-> 700057, httpResponseCode |-> 400, category |-> "ApiService",
         message |-> "telecomExtensionNotAllowed"],
     matchingAddressNotFound |->
        [code |-> 700058, httpResponseCode |-> 400, category |-> "ApiService",
         message |-> "matchingAddressNotFound"],
     unknownErrorpharmacyDoesNotAcceptFax |->
        [code |-> 615059, httpResponseCode |-> 400, category |-> "Pharmacy",
         message |-> "unknownErrorpharmacyDoesNotAcceptFax"],
     authTokenUserDoesNotExist |->
        [code |-> 623060, httpResponseCode |-> 403, category |-> "User",
         message |-> "There is no record for user presented in bearer token"]]

\* the catalog with the placeholder of operationFailed misspelt
ErrorConfigs_MisspeltPlaceholder ==
    [ErrorConfigEntries EXCEPT
        !.operationFailed.message = "Unable to perform {opertion} operation"]

\* the catalog with the code of createFailed given to a second entry
ErrorConfigs_DuplicateCode ==
    [ErrorConfigEntries EXCEPT !.operationFailed.code = 600001]

\* the catalog with an Info entry numbered in the range of the Rx entries
ErrorConfigs_MisfiledCode ==
    [ErrorConfigEntries EXCEPT !.operationFailed.code = 616900]

\* new ErrorConfigs(): the catalog as it is when the process starts
ErrorConfigs == ErrorConfigEntries

-----------------------------------------------------------------------------
(* The ServiceError path. ServiceError and the message formatter are not   *)
(* among the source files; they are modelled from the specification of the *)
(* library: its sections 3, 4.2, 5, 6 and 9.                               *)

\* catalog[key]: a property read, undefined for a key the catalog lacks
Lookup(cat, key) == IF key \in DOMAIN cat THEN cat[key] ELSE Undefined

\* a zero-argument function returning ret
Fn(ret) == [k |-> "function", ret |-> ret]

\* index of the first occurrence of tok in s, 0 when there is none
IndexOf(s, tok) ==
    LET hits == {i \in 1..(Len(s) - Len(tok) + 1) :
                    SubSeq(s, i, i + Len(tok) - 1) = tok}
    IN IF hits = {} THEN 0 ELSE CHOOSE i \in hits : \A j \in hits : i <= j

\* a replace that stops after the first occurrence of tok
ReplaceAll_FirstOnly(s, tok, val) ==
    LET i == IndexOf(s, tok)
    IN IF i = 0 THEN s
       ELSE SubSeq(s, 1, i - 1) \o val \o SubSeq(s, i + Len(tok), Len(s))

RECURSIVE ReplaceAll(_, _, _)
\* global textual replace of the literal tok by val
ReplaceAll(s, tok, val) ==
    LET i == IndexOf(s, tok)
    IN IF i = 0 THEN s
       ELSE SubSeq(s, 1, i - 1) \o val
                \o ReplaceAll(SubSeq(s, i + Len(tok), Len(s)), tok, val)

RECURSIVE Split(_, _)
\* s.split(tok)
Split(s, tok) ==
    LET i == IndexOf(s, tok)
    IN IF i = 0 THEN <<s>>
       ELSE <<SubSeq(s, 1, i - 1)>>
                \o Split(SubSeq(s, i + Len(tok), Len(s)), tok)

Token(key) == "{" \o key \o "}"

RECURSIVE formatEntries(_, _, _)
\* the formatter's pass over the entries of a values map: message is the
\* template as replaced so far, parts the result of the last split
formatEntries(entries, message, parts) ==
    IF Len(entries) = 0 THEN [message |-> message, parts |-> parts]
    ELSE
        LET key == entries[1][1]
            value == entries[1][2]
        IN IF value.k = "function" THEN
               LET segs == Split(message, Token(key))
               IN formatEntries(Tail(entries), message,
                     Arr([i \in 1..Len(segs) |->
                            IF segs[i] = "" THEN Str(value.ret)
                            ELSE Str(segs[i])]))
           ELSE IF value.k \in {"string", "number", "boolean"} THEN
               formatEntries(Tail(entries),
                     ReplaceAll(message, Token(key), ToJSString(value)), parts)
           ELSE
               formatEntries(Tail(entries), message, parts)

\* a formatter that always returns the template string
formatMessage_AlwaysString(template, values) ==
    IF values.k = "object" THEN
        LET f == formatEntries(values.entries, template, Undefined)
        IN [message |-> f.message, result |-> Str(f.message)]
    ELSE [message |-> template, result |-> Str(template)]

\* the message formatter on a template and a values source: message is what
\* the template's message field holds afterwards, result what is returned
formatMessage(template, values) ==
    IF values.k = "object" THEN
        LET f == formatEntries(values.entries, template, Undefined)
        IN [message |-> f.message,
            result |-> IF f.parts = Undefined THEN Str(f.message) ELSE f.parts]
    ELSE [message |-> template, result |-> Str(template)]

\* the two passes of the ServiceError constructor on a template: the direct
\* substitution of {operation} and {details}, then the formatter
serviceMessage(template, operation, details, values) ==
    LET m1 == IF operation.k = "string"
              THEN ReplaceAll(template, Token("operation"), operation.s)
              ELSE template
        m2 == IF details.k = "string"
              THEN ReplaceAll(m1, Token("details"), details.s)
              ELSE m1
    IN formatMessage(m2, values)

-----------------------------------------------------------------------------
(* Inputs. *)

\* values of Math.random(), as numerators over RandDenom: the least, a middle
\* and the greatest value below 1
RandomValues == {0, RandDenom \div 2, RandDenom - 1}

\* the six values one generateRef call consumes
RandomDraws == [1..6 -> RandomValues]

\* draws used where the reference code is not what is observed
RenderDraws == {[i \in 1..6 |-> 0], [i \in 1..6 |-> RandDenom - 1]}

Names == {"", "repo"}

UserErrorCategories == {"invalidLogin", "invalidData"}

DeviceOpErrorCategories == {"locationService", "userDataNotFoundInLocalDb"}

\* error instances that occur as the details of another error
InnerErrors ==
    {OpError("db", "save", Undefined, Str("pid 7"), [i \in 1..6 |-> 0]),
     UnhandledRejection(Str("boom"), [i \in 1..6 |-> 0]),
     UserError("invalidLogin", Str("bad"), Undefined, [i \in 1..6 |-> 0])}

FalsyValues == {Undefined, Null, Bool(FALSE), Num(0), Str("")}

DetailValues ==
    FalsyValues
    \cup {Str("boom"), Num(7), Bool(TRUE)}
    \cup {Arr(<<>>), Arr(<<Str("a"), Num(7)>>),
          Obj(<<>>), Obj(<< <<"id", Num(7)>> >>)}
    \cup {Exc("Error", "disk full", "Error: disk full\n    at save"),
          Exc("Error", "disk full", "")}
    \cup InnerErrors
    \cup {Arr(<<Str("a"), i>>) : i \in InnerErrors}
    \cup {Obj(<< <<"cause", i>> >>) : i \in InnerErrors}

DebugValues == {Undefined, Str("ssn 123"), Obj(<< <<"ssn", Str("123")>> >>)}

\* elements of the arrays handed to detailToString
ElemValues ==
    {Undefined, Num(0), Num(7), Str("a"), Arr(<<Str("x"), Str("y")>>),
     Obj(<< <<"id", Num(7)>> >>),
     OpError("db", "save", Str("boom"), Str("pid 7"), [i \in 1..6 |-> 0])}

ArrayInputs ==
    UNION {{Arr(items) : items \in [1..n -> ElemValues]} : n \in 0..MaxArrayLen}

\* generic exceptions handed to detailToString; an empty stack stands for an
\* exception that has none
ExceptionInputs ==
    {Exc(name, message, stack) :
        name \in {"", "Error", "TypeError"},
        message \in {"", "boom"},
        stack \in {"", "Error: boom\n    at save (repo.js:7:3)"}}

\* values that are not objects handed to detailToString
ScalarInputs ==
    FalsyValues \cup {Str("boom"), Str("0"), Str("false"), Num(7), Num(120),
                      Bool(TRUE)}

\* values passed to the static BaseError.toString: instances of a named and
\* of an anonymous subclass that do not override the headline getter, and
\* plain objects built by an object literal or by an anonymous constructor
StaticInputs ==
    {BaseError(cls, ErrorType.operation, d, g, [i \in 1..6 |-> 0]) :
        cls \in {"CustomError", ""},
        d \in {Undefined, Str(""), Str("boom"), Obj(<<>>),
               Obj(<< <<"self", BackReference>> >>)},
        g \in DebugValues}
    \cup {PlainError(cls, h, d, g) :
            cls \in {"Object", ""}, h \in {"", "Disk failure"},
            d \in {Undefined, Str("boom")}, g \in {Undefined, Str("ssn 123")}}

\* nested payloads handed to detailToString, with and without references to
\* themselves
NestedInputs ==
    {Obj(<< <<"self", BackReference>> >>),
     Arr(<<Str("a"), BackReference>>),
     Obj(<< <<"id", Num(7)>>,
            <<"next", Obj(<< <<"prev", BackReference>> >>)>> >>),
     Arr(<<Arr(<<Obj(<< <<"id", Arr(<<Num(7), Str("x")>>)>> >>)>>)>>),
     Obj(<< <<"cause", OpError("db", "save", Arr(<<Str("boom")>>),
                               Undefined, [i \in 1..6 |-> 0])>> >>)}

\* plain key-value records handed to detailToString
RecordInputs ==
    {Obj(<<>>)}
    \cup {Obj(<< <<"id", v>> >>) : v \in ElemValues}
    \cup {Obj(<< <<"id", v>>, <<"name", w>> >>) : v, w \in ElemValues}

\* the catalog entries looked up
LookupKeys ==
    {"operationFailed", "operationNotPermitted", "recordDoesNotExist"}

Operations == {Undefined, Str("create"), Str("sync")}

ServiceDetails == {Undefined, Str("timeout")}

\* keys passed by callers that index the catalog by a computed name
CallerKeys == {"operationFailed", "recordDoesNotExist", "rxNotFound"}

ValuesSources ==
    {Undefined, Str("Patient"),
     Obj(<< <<"context", Str("Patient")>> >>),
     Obj(<< <<"context", Str("Rx")>>, <<"meta", Obj(<<>>)>> >>),
     Obj(<< <<"context", Fn("Patient")>> >>)}

\* templates of config objects built by a caller of the formatter
Templates ==
    {"plain text", "Unable to create {context}",
     "{context} record does not exist", "{context} to {context}",
     "a{context}b", "{n} of {total} {context}"}

FormatValues ==
    ValuesSources \cup
    {Obj(<< <<"context", Num(7)>> >>),
     Obj(<< <<"context", Bool(TRUE)>> >>),
     Obj(<< <<"n", Num(2)>>, <<"total", Num(10)>> >>),
     Obj(<< <<"total", Num(10)>>, <<"context", Str("refills")>>,
            <<"n", Num(2)>> >>),
     Obj(<< <<"context", Null>> >>),
     Obj(<<>>)}

-----------------------------------------------------------------------------
(* State. *)

NoInstance == [k |-> "none"]
NoCall == [called |-> FALSE]

InitFlags ==
    /\ addDebugInfoToMessage = FALSE
    /\ addDetailsToMessage = Undefined
    /\ stringColors \in {"absent", "plain", "ansi"}

InitErrors == err = NoInstance /\ out = NoCall

InitDetail == detail = NoInstance /\ rendered = NoCall

InitService == catalog = ErrorConfigs /\ svc = NoCall /\ calls = 0

Init == InitFlags /\ InitErrors /\ InitDetail /\ InitService

-----------------------------------------------------------------------------
(* Operations. *)

\* BaseError.addDebugInfoToMessage = b
SetAddDebugInfoToMessage(b) ==
    /\ addDebugInfoToMessage' = b
    /\ UNCHANGED <<addDetailsToMessage, stringColors, err, out, detail,
                   rendered, catalog, svc, calls>>

\* BaseError.addDetailsToMessage = b
SetAddDetailsToMessage(b) ==
    /\ addDetailsToMessage' = Bool(b)
    /\ UNCHANGED <<addDebugInfoToMessage, stringColors, err, out, detail,
                   rendered, catalog, svc, calls>>

\* e = new <class>(...): e becomes the instance under observation
Construct(e) ==
    /\ err = NoInstance
    /\ err' = e
    /\ out' = NoCall
    /\ UNCHANGED <<addDebugInfoToMessage, addDetailsToMessage, stringColors,
                   detail, rendered, catalog, svc, calls>>

\* new OpError(c, o, d, g), for inputs drawn from the given sets
NewOpError(CNs, ONs, Ds, Gs, Rs) ==
    /\ err = NoInstance
    /\ \E c \in CNs, o \in ONs, d \in Ds, g \in Gs, r \in Rs :
            Construct(OpError(c, o, d, g, r))

NewNoOpError(CNs, ONs, Ds, Gs, Rs) ==
    /\ err = NoInstance
    /\ \E c \in CNs, o \in ONs, d \in Ds, g \in Gs, r \in Rs :
            Construct(NoOpError(c, o, d, g, r))

NewRuleViolationError(RLs, Ds, Gs, Rs) ==
    /\ err = NoInstance
    /\ \E n \in RLs, d \in Ds, g \in Gs, r \in Rs :
            Construct(RuleViolationError(n, d, g, r))

NewSecurityRuleViolation(RLs, Ds, Gs, Rs) ==
    /\ err = NoInstance
    /\ \E n \in RLs, d \in Ds, g \in Gs, r \in Rs :
            Construct(SecurityRuleViolation(n, d, g, r))

NewAPICallError(SVs, EPs, Ds, Rs) ==
    /\ err = NoInstance
    /\ \E s \in SVs, p \in EPs, d \in Ds, r \in Rs :
            Construct(APICallError(s, p, d, r))

NewConnectionError(CTs, Ds, Gs, Rs) ==
    /\ err = NoInstance
    /\ \E t \in CTs, d \in Ds, g \in Gs, r \in Rs :
            Construct(ConnectionError(t, d, g, r))

NewNotImplementedError(Rs) ==
    /\ err = NoInstance
    /\ \E r \in Rs : Construct(NotImplementedError(r))

NewUserError(CAs, Ds, Gs, Rs) ==
    /\ err = NoInstance
    /\ \E c \in CAs, d \in Ds, g \in Gs, r \in Rs :
            Construct(UserError(c, d, g, r))

NewDeviceOpError(CNs, ONs, CAs, OSs, Ds, Gs, Rs) ==
    /\ err = NoInstance
    /\ \E c \in CNs, o \in ONs, t \in CAs, s \in OSs, d \in Ds, g \in Gs,
          r \in Rs :
            Construct(DeviceOpError(c, o, t, s, d, g, r))

\* new UnhandledRejection(promise, error); the promise is not used
NewUnhandledRejection(Ds, Rs) ==
    /\ err = NoInstance
    /\ \E d \in Ds, r \in Rs : Construct(UnhandledRejection(d, r))

NewUncaughtException(Ds, Rs) ==
    /\ err = NoInstance
    /\ \E d \in Ds, r \in Rs : Construct(UncaughtException(d, r))

\* a toString that keeps the rendering of the details in the instance
CallToString_CachesDetails ==
    /\ IsBaseError(err)
    /\ out' = Merge(Rendering(err, BaseError_toString(err)),
                    [headline |-> headline(err)])
    /\ err' = [err EXCEPT !.details = Str(detailToString(err.details))]
    /\ UNCHANGED <<addDebugInfoToMessage, addDetailsToMessage, stringColors,
                   detail, rendered, catalog, svc, calls>>

\* err.toString(), which reads err.headline first
CallToString ==
    /\ IsBaseError(err)
    /\ out' = Merge(Rendering(err, BaseError_toString(err)),
                    [headline |-> headline(err)])
    /\ UNCHANGED <<addDebugInfoToMessage, addDetailsToMessage, stringColors,
                   err, detail, rendered, catalog, svc, calls>>

\* the static BaseError.toString(e) called on a value e drawn from Es
CallStaticToString(Es) ==
    /\ err = NoInstance
    /\ \E e \in Es :
        /\ err' = e
        /\ out' = Merge(Rendering(e, BaseError_toString(e)),
                        [headline |-> headline(e)])
    /\ UNCHANGED <<addDebugInfoToMessage, addDetailsToMessage, stringColors,
                   detail, rendered, catalog, svc, calls>>

\* BaseError.detailToString(d), for an input drawn from Ds
CallDetailToString(Ds) ==
    /\ rendered = NoCall
    /\ \E d \in Ds :
        /\ detail' = d
        /\ rendered' = Rendering(d, detailToString(d))
    /\ UNCHANGED <<addDebugInfoToMessage, addDetailsToMessage, stringColors,
                   err, out, catalog, svc, calls>>

\* new ServiceError(catalog[key], operation, details, values): the
\* substitutions are made in the message field of the catalog's own entry
NewServiceError(Ks, Ops, Ds, Vs) ==
    /\ calls < MaxCalls
    /\ \E key \in Ks, operation \in Ops, details \in Ds, values \in Vs :
        IF Lookup(catalog, key) = Undefined
        THEN \* the missing entry is not handled: the instance is built
             \* around an undefined config
             /\ catalog' = catalog
             /\ svc' = [called |-> TRUE, op |-> "ServiceError", key |-> key,
                        operation |-> operation, details |-> details,
                        values |-> values, errorConfig |-> Undefined]
        ELSE
            LET f == serviceMessage(Lookup(catalog, key).message, operation,
                                    details, values)
            IN /\ catalog' = [catalog EXCEPT ![key].message = f.message]
               /\ svc' = [called |-> TRUE, op |-> "ServiceError",
                          key |-> key, operation |-> operation,
                          details |-> details, values |-> values,
                          template |-> catalog[key].message,
                          message |-> f.message, result |-> f.result,
                          errorConfig |-> catalog'[key]]
    /\ calls' = calls + 1
    /\ UNCHANGED <<addDebugInfoToMessage, addDetailsToMessage, stringColors,
                   err, out, detail, rendered>>

\* the formatter called on catalog[key] with a values source
CallFormatter(Ks, Vs) ==
    /\ calls < MaxCalls
    /\ \E key \in Ks, values \in Vs :
        LET f == formatMessage(catalog[key].message, values)
        IN /\ catalog' = [catalog EXCEPT ![key].message = f.message]
           /\ svc' = [called |-> TRUE, op |-> "format", key |-> key,
                      operation |-> Undefined, details |-> Undefined,
                      values |-> values, template |-> catalog[key].message,
                      message |-> f.message, result |-> f.result]
    /\ calls' = calls + 1
    /\ UNCHANGED <<addDebugInfoToMessage, addDetailsToMessage, stringColors,
                   err, out, detail, rendered>>

\* the formatter called on a config object the caller has just built, with
\* a template drawn from Ts; the catalog is not involved
FormatTemplate(Ts, Vs) ==
    /\ \E t \in Ts, values \in Vs :
        LET f == formatMessage(t, values)
        IN svc' = [called |-> TRUE, op |-> "formatTemplate", key |-> "",
                   operation |-> Undefined, details |-> Undefined,
                   values |-> values, template |-> t,
                   message |-> f.message, result |-> f.result]
    /\ UNCHANGED <<addDebugInfoToMessage, addDetailsToMessage, stringColors,
                   err, out, detail, rendered, catalog, calls>>

-----------------------------------------------------------------------------
(* Specifications. *)

\* one error instance with details and debug info, rendered under the flags
Next ==
    \/ \E b \in BOOLEAN : SetAddDebugInfoToMessage(b)
    \/ \E b \in BOOLEAN : SetAddDetailsToMessage(b)
    \/ NewOpError({"repo"}, {"save"}, DetailValues, DebugValues, RenderDraws)
    \/ NewNoOpError({"repo"}, {"save"}, DetailValues, DebugValues, RenderDraws)
    \/ NewRuleViolationError({"maxRefills"}, DetailValues, DebugValues,
                             RenderDraws)
    \/ NewSecurityRuleViolation({"ownRecordOnly"}, DetailValues, DebugValues,
                                RenderDraws)
    \/ NewAPICallError({"SomeAPI"}, {"User by Id"}, DetailValues, RenderDraws)
    \/ NewConnectionError({"database"}, DetailValues, DebugValues, RenderDraws)
    \/ NewNotImplementedError(RenderDraws)
    \/ NewUserError({"invalidLogin"}, DetailValues, DebugValues, RenderDraws)
    \/ NewDeviceOpError({"gps"}, {"locate"}, {"locationService"}, {"ios"},
                        DetailValues, DebugValues, RenderDraws)
    \/ NewUnhandledRejection(DetailValues, RenderDraws)
    \/ NewUncaughtException(DetailValues, RenderDraws)
    \/ CallToString

Spec == Init /\ [][Next]_vars

\* every class constructed with its required fields only, over all draws
NextConstruct ==
    \/ NewOpError(Names, Names, {Undefined}, {Undefined}, RandomDraws)
    \/ NewNoOpError(Names, Names, {Undefined}, {Undefined}, RandomDraws)
    \/ NewRuleViolationError(Names, {Undefined}, {Undefined}, RandomDraws)
    \/ NewSecurityRuleViolation(Names, {Undefined}, {Undefined}, RandomDraws)
    \/ NewAPICallError(Names, Names, {Undefined}, RandomDraws)
    \/ NewConnectionError(ConnectionType, {Undefined}, {Undefined}, RandomDraws)
    \/ NewNotImplementedError(RandomDraws)
    \/ NewUserError(UserErrorCategories, {Undefined}, {Undefined}, RandomDraws)
    \/ NewDeviceOpError(Names, Names, DeviceOpErrorCategories, {"ios"},
                        {Undefined}, {Undefined}, RandomDraws)
    \/ NewUnhandledRejection({Undefined}, RandomDraws)
    \/ NewUncaughtException({Undefined}, RandomDraws)

SpecConstruct == Init /\ [][NextConstruct]_vars

\* detailToString applied to arrays and to plain records, under either value
\* of the debug flag
NextDetail ==
    \/ \E b \in BOOLEAN : SetAddDebugInfoToMessage(b)
    \/ CallDetailToString(ArrayInputs)
    \/ CallDetailToString(RecordInputs)
    \/ CallDetailToString(ExceptionInputs)
    \/ CallDetailToString(ScalarInputs)

SpecDetail == Init /\ [][NextDetail]_vars

\* the static toString on values without a headline and detailToString on
\* nested payloads, under either value of the debug flag
NextRender ==
    \/ \E b \in BOOLEAN : SetAddDebugInfoToMessage(b)
    \/ CallStaticToString(StaticInputs)
    \/ CallDetailToString(NestedInputs)

SpecRender == Init /\ [][NextRender]_vars

\* ServiceError constructions and formatter calls on the shared catalog
NextService ==
    \/ NewServiceError(LookupKeys, Operations, ServiceDetails, ValuesSources)
    \/ CallFormatter(LookupKeys, ValuesSources)

SpecService == Init /\ [][NextService]_vars

\* the formatter as a function of its template and its values source
NextFormat == FormatTemplate(Templates, FormatValues)

SpecFormat == Init /\ [][NextFormat]_vars

\* ServiceError constructions by callers whose key may have no entry
NextLookup ==
    NewServiceError(CallerKeys, Operations, ServiceDetails, ValuesSources)

SpecLookup == Init /\ [][NextLookup]_vars

-----------------------------------------------------------------------------
(* Properties of rendering (checked under Spec). *)

Absent(v) == v.k \in {"undefined", "null"}

\* the flag still has the value it had when toString() was last called, so
\* that what is rendered now is what was rendered then
FlagAsAtCall == out.called /\ out.debugFlag = addDebugInfoToMessage

\* C1: debug info is omitted from toString() unless the debug flag is enabled:
\* a call made with the flag false returns exactly what it returns for the
\* same error without debugInfo, and the rendering of debugInfo does not occur
\* in it
C1_DebugInfoOmittedUnlessFlag ==
    (FlagAsAtCall /\ ~out.debugFlag) =>
        /\ out.result = BaseError_toString([err EXCEPT !.debugInfo = Undefined])
        /\ Truthy(err.debugInfo) =>
                ~Contains(out.result, detailToString(err.debugInfo))

C1_Witness ==
    /\ FlagAsAtCall /\ ~out.debugFlag
    /\ Truthy(err.debugInfo)
    /\ Truthy(err.details)

\* C2: toString() equals the headline alone when details and debugInfo are
\* both absent, whatever the value of the debug flag
C2_HeadlineAlone ==
    (out.called /\ Absent(err.details) /\ Absent(err.debugInfo)) =>
        out.result = headline(err)

C2_Witness ==
    /\ out.called /\ out.debugFlag
    /\ Absent(err.details) /\ Absent(err.debugInfo)
    /\ err.cls = "UserError"

\* a string, or the string wrapped in the ANSI codes of a colour
OptionallyColorized(s) ==
    {s} \cup {open \o s \o "\\x1b[39m" :
                open \in {"\\x1b[36m", "\\x1b[32m", "\\x1b[31m"}}

\* the error instances inside a detail: the detail itself, or an element of
\* an array, or a value of a plain record
InnerInstances(d) ==
    IF IsBaseError(d) THEN {d}
    ELSE IF d.k = "array"
         THEN {d.items[i] : i \in {j \in 1..Len(d.items) :
                                        IsBaseError(d.items[j])}}
    ELSE IF d.k = "object"
         THEN {d.entries[i][2] : i \in {j \in 1..Len(d.entries) :
                                            IsBaseError(d.entries[j][2])}}
    ELSE {}

\* C6: when the details of an error hold another error instance (directly, in
\* an array or in a plain record), toString() of the outer error contains the
\* headline of the inner one
C6_NestedHeadlineContained ==
    FlagAsAtCall =>
        \A inner \in InnerInstances(err.details) :
            Contains(out.result, headline(inner))

\* C7: toString() is the headline, then the optionally colourised rendering of
\* the details when they are present, then the optionally colourised rendering
\* of the debug info when it is present and the flag is enabled
C7_Concatenation ==
    FlagAsAtCall =>
        /\ StartsWith(out.result, headline(err))
        /\ \E d \in (IF Truthy(err.details)
                     THEN OptionallyColorized(
                            "\n" \o detailToString(err.details))
                     ELSE {""}),
              g \in (IF Truthy(err.debugInfo) /\ out.debugFlag
                     THEN OptionallyColorized(
                            "\n" \o detailToString(err.debugInfo) \o "\n")
                     ELSE {""}) :
                out.result = headline(err) \o d \o g

-----------------------------------------------------------------------------
(* Properties of construction (checked under SpecConstruct). *)

UpperCaseLetters ==
    {"A", "B", "C", "D", "E", "F", "G", "H", "I", "J", "K", "L", "M",
     "N", "O", "P", "Q", "R", "S", "T", "U", "V", "W", "X", "Y", "Z"}

DecimalDigits == {"0", "1", "2", "3", "4", "5", "6", "7", "8", "9"}

\* C3: every class constructed with its required fields and neither details
\* nor debugInfo has a non-empty headline
C3_HeadlineNonEmpty ==
    IsBaseError(err) => headline(err) # ""

C3_Witness ==
    /\ IsBaseError(err)
    /\ err.cls = "DeviceOpError"
    /\ err.componentName = "" /\ err.opName = ""
    /\ Absent(err.details) /\ Absent(err.debugInfo)

\* C4: the reference code of every constructed instance is three upper-case
\* letters followed by three decimal digits, whatever Math.random() returns
C4_ErrorRefFormat ==
    IsBaseError(err) =>
        /\ Len(err.errorRef) = 6
        /\ \A i \in 0..2 : charAt(err.errorRef, i) \in UpperCaseLetters
        /\ \A i \in 3..5 : charAt(err.errorRef, i) \in DecimalDigits

C4_Witness ==
    /\ IsBaseError(err)
    /\ charAt(err.errorRef, 0) = "Z"
    /\ charAt(err.errorRef, 1) = "A"
    /\ charAt(err.errorRef, 5) = "8"

-----------------------------------------------------------------------------
(* Properties of detailToString (checked under SpecDetail). *)

RECURSIVE AmpersandJoined(_)
\* the renderings of the elements, in order, with " & " between them
AmpersandJoined(items) ==
    IF Len(items) = 0 THEN ""
    ELSE IF Len(items) = 1 THEN detailToString(items[1])
    ELSE detailToString(items[1]) \o " & " \o AmpersandJoined(Tail(items))

\* C5: detailToString of an array is the renderings of its elements joined in
\* order with " & "; for [a, b, c] it is render(a) & render(b) & render(c)
C5_ArrayJoin ==
    (rendered.called /\ rendered.debugFlag = addDebugInfoToMessage
        /\ detail.k = "array") =>
        /\ rendered.result = AmpersandJoined(detail.items)
        /\ Len(detail.items) = 3 =>
                rendered.result =
                    detailToString(detail.items[1]) \o " & "
                        \o detailToString(detail.items[2]) \o " & "
                        \o detailToString(detail.items[3])

C5_Witness ==
    /\ rendered.called /\ rendered.debugFlag = addDebugInfoToMessage
    /\ detail.k = "array" /\ Len(detail.items) = 3
    /\ IsBaseError(detail.items[1])
    /\ detail.items[2].k = "array"
    /\ detail.items[3].k = "object"

-----------------------------------------------------------------------------
(* Properties of the ServiceError path (checked under SpecService). *)

\* the entry looked up was as statically defined when the call was made
OnPristineEntry == svc.called /\ svc.template = ErrorConfigs[svc.key].message

\* C8: a ServiceError constructed from the catalog template "Unable to
\* perform {operation} operation" with operation "create" has the message
\* "Unable to perform create operation"; whenever an operation string is
\* supplied the resulting message holds no {operation} token
C8_OperationSubstituted ==
    (svc.called /\ svc.op = "ServiceError" /\ svc.operation.k = "string") =>
        /\ ~Contains(svc.message, "{operation}")
        /\ (OnPristineEntry /\ svc.key = "operationFailed"
                /\ svc.operation = Str("create")) =>
                svc.message = "Unable to perform create operation"

C8_Witness ==
    /\ svc.called /\ svc.op = "ServiceError"
    /\ OnPristineEntry /\ svc.key = "operationFailed"
    /\ svc.operation = Str("create")
    /\ svc.message = "Unable to perform create operation"

\* what the last call yields on a fresh copy of the catalog entry
OnFreshCopy ==
    IF svc.op = "ServiceError"
    THEN serviceMessage(ErrorConfigs[svc.key].message, svc.operation,
                        svc.details, svc.values)
    ELSE formatMessage(ErrorConfigs[svc.key].message, svc.values)

\* C9: formatting is referentially transparent: the message and the result of
\* every formatter call and ServiceError construction are those the same call
\* yields when made first on a fresh copy of the catalog entry
C9_ReferentiallyTransparent ==
    svc.called =>
        /\ svc.message = OnFreshCopy.message
        /\ svc.result = OnFreshCopy.result

\* C10: the catalog is read-only: after any sequence of ServiceError
\* constructions and formatter calls every entry equals its static definition
C10_CatalogReadOnly ==
    \A key \in DOMAIN ErrorConfigs :
        /\ catalog[key].code = ErrorConfigs[key].code
        /\ catalog[key].httpResponseCode = ErrorConfigs[key].httpResponseCode
        /\ catalog[key].category = ErrorConfigs[key].category
        /\ catalog[key].message = ErrorConfigs[key].message

-----------------------------------------------------------------------------
(* Properties of the catalog's numbering (checked under SpecService). *)

\* the leading three digits of a six-digit code
CodePrefix(code) == code \div 1000

\* C11: catalog codes are globally unique: no two distinct entries of the
\* catalog have the same code, in every state the catalog goes through
C11_CodesUnique ==
    Cardinality({catalog[key].code : key \in DOMAIN catalog})
        = Cardinality(DOMAIN catalog)

C11_Witness ==
    /\ svc.called /\ svc.op = "ServiceError"
    /\ catalog # ErrorConfigs
    /\ Cardinality(DOMAIN catalog) = 60
    /\ catalog.createFailed.code # catalog.operationFailed.code

\* C12: catalog codes are partitioned by category: entries of one category
\* have codes with the same leading three digits, and entries of different
\* categories have different leading three digits
C12_CodesPartitionedByCategory ==
    LET categories == {catalog[key].category : key \in DOMAIN catalog}
        prefixes == {CodePrefix(catalog[key].code) : key \in DOMAIN catalog}
        PrefixesOf(c) == {CodePrefix(catalog[key].code) :
                            key \in {k \in DOMAIN catalog :
                                        catalog[k].category = c}}
    IN /\ \A c \in categories : Cardinality(PrefixesOf(c)) = 1
       /\ Cardinality(prefixes) = Cardinality(categories)

C12_Witness ==
    /\ svc.called
    /\ catalog.createFailed.category = "Info"
    /\ CodePrefix(catalog.createFailed.code) = 600
    /\ \E k1, k2 \in DOMAIN catalog :
        /\ catalog[k1].category = "Rx" /\ CodePrefix(catalog[k1].code) = 616
        /\ catalog[k2].category = "ApiService"
        /\ CodePrefix(catalog[k2].code) = 700
        /\ Cardinality({catalog[key].category : key \in DOMAIN catalog}) = 8

\* C13: a ServiceError constructed from catalog.recordDoesNotExist with the
\* context argument "Patient" has the unsubstituted template as its message:
\* the {context} token is not replaced
C13_ContextNotSubstituted ==
    (svc.called /\ svc.op = "ServiceError" /\ svc.key = "recordDoesNotExist"
        /\ svc.values = Str("Patient")) =>
        svc.message = "{context} record does not exist. Contact Support (support@scalamed.com) for help"

-----------------------------------------------------------------------------
(* Properties of the formatter (checked under SpecFormat). *)

FormatterCalled == svc.called /\ svc.op \in {"format", "formatTemplate"}

IsScalar(v) == v.k \in {"string", "number", "boolean"}

IsFunction(v) == v.k = "function"

\* the scalar-valued entries of the values map of the last call
ScalarEntries ==
    IF svc.values.k = "object"
    THEN {i \in 1..Len(svc.values.entries) : IsScalar(svc.values.entries[i][2])}
    ELSE {}

\* s with the text val put between the pieces that tok separates
Interposed(s, tok, val) == join(Split(s, tok), val)

RECURSIVE InterposedAll(_, _)
\* the entries' scalar values interposed one key after the other
InterposedAll(entries, s) ==
    IF Len(entries) = 0 THEN s
    ELSE InterposedAll(Tail(entries),
            IF IsScalar(entries[1][2])
            THEN Interposed(s, Token(entries[1][1]), ToJSString(entries[1][2]))
            ELSE s)

\* C14: for each key of the values map with a scalar value the formatter
\* replaces every occurrence of the token {key} by the string form of the
\* value: no such token is left in the message, and the text between the
\* tokens is unchanged
C14_ScalarReplacedGlobally ==
    (FormatterCalled /\ svc.values.k = "object") =>
        /\ \A i \in ScalarEntries :
            ~Contains(svc.message, Token(svc.values.entries[i][1]))
        /\ svc.message = InterposedAll(svc.values.entries, svc.template)

C14_Witness ==
    /\ FormatterCalled
    /\ svc.template = "{context} to {context}"
    /\ svc.values = Obj(<< <<"context", Str("Patient")>> >>)
    /\ svc.message = "Patient to Patient"

\* C15: the formatter returns an ordered array of parts, the template split
\* on the token with each empty segment replaced by the function's result,
\* whenever an entry of the values map is a function, and a single string in
\* every other case
C15_PartsIffFunction ==
    FormatterCalled =>
        LET entries == IF svc.values.k = "object" THEN svc.values.entries
                       ELSE <<>>
            hasFunction == \E i \in 1..Len(entries) : IsFunction(entries[i][2])
        IN /\ hasFunction =>
                /\ svc.result.k = "array"
                /\ Len(entries) = 1 =>
                    LET segs == Split(svc.template, Token(entries[1][1]))
                    IN /\ Len(svc.result.items) = Len(segs)
                       /\ \A i \in 1..Len(segs) :
                            svc.result.items[i] =
                                IF segs[i] = "" THEN Str(entries[1][2].ret)
                                ELSE Str(segs[i])
           /\ ~hasFunction => svc.result = Str(svc.message)

C15_Witness ==
    /\ FormatterCalled
    /\ svc.template = "{context} record does not exist"
    /\ svc.values = Obj(<< <<"context", Fn("Patient")>> >>)
    /\ svc.result = Arr(<<Str("Patient"), Str(" record does not exist")>>)

-----------------------------------------------------------------------------
(* Properties of the catalog lookup (checked under SpecLookup). *)

\* C16: a lookup of a key that has no catalog entry fails loudly: no
\* ServiceError is produced whose config (code, httpResponseCode, category,
\* message) is undefined
C16_MissingKeyFailsLoudly ==
    (svc.called /\ svc.op = "ServiceError") => svc.errorConfig # Undefined

-----------------------------------------------------------------------------
(* Properties of the instances (checked under Spec). *)

\* C17: an error instance is immutable after construction: no toString()
\* call, headline access, nested rendering or toggle of the two process-wide
\* flags changes its type, details, debugInfo, errorRef or any other field
C17_InstanceImmutable == [][IsBaseError(err) => err' = err]_vars

C17_Witness ==
    /\ out.called
    /\ IsBaseError(err) /\ IsBaseError(err.details)
    /\ Truthy(err.debugInfo)
    /\ addDebugInfoToMessage /\ addDetailsToMessage = Bool(TRUE)
    /\ out.debugFlag

\* C18: the headline is a pure function of the instance's fields: an access
\* returns what the earlier access returned whatever the process-wide flags
\* have become, and the headline does not depend on errorRef
C18_HeadlinePure ==
    (out.called /\ IsBaseError(err)) =>
        /\ headline(err) = out.headline
        /\ headline([err EXCEPT !.errorRef = "AAA000"]) = headline(err)

-----------------------------------------------------------------------------
(* Properties of the headlines (checked under SpecConstruct). *)

\* C19: the headline of an external-dependency error names the failing
\* context: an APICallError's its service and endpoint, a ConnectionError's
\* its connection type, a DeviceOpError's its componentName, opName, deviceOS
\* or category
C19_HeadlineNamesContext ==
    IsBaseError(err) =>
        /\ err.cls = "APICallError" =>
            /\ Contains(headline(err), err.service)
            /\ Contains(headline(err), err.endpoint)
        /\ err.cls = "ConnectionError" =>
            Contains(headline(err), err.connectionType)
        /\ err.cls = "DeviceOpError" =>
            \E name \in {err.componentName, err.opName, err.deviceOS,
                         err.category} :
                name # "" /\ Contains(headline(err), name)

-----------------------------------------------------------------------------
(* Properties of detailToString on records (checked under SpecDetail). *)

RECURSIVE PairsJoined(_)
\* "key: " and the rendering of the value, entry after entry, with ", "
\* between the entries
PairsJoined(entries) ==
    IF Len(entries) = 0 THEN ""
    ELSE LET pair == entries[1][1] \o ": " \o detailToString(entries[1][2])
         IN IF Len(entries) = 1 THEN pair
            ELSE pair \o ", " \o PairsJoined(Tail(entries))

\* C20: detailToString of a plain key-value record is its entries rendered
\* as "key: " followed by the recursive rendering of the value, in key order,
\* joined by ", "
C20_RecordPairs ==
    (rendered.called /\ rendered.debugFlag = addDebugInfoToMessage
        /\ detail.k = "object") =>
        rendered.result = PairsJoined(detail.entries)

C20_Witness ==
    /\ rendered.called /\ rendered.debugFlag = addDebugInfoToMessage
    /\ detail = Obj(<< <<"id", Obj(<< <<"id", Num(7)>> >>)>>,
                       <<"name", Arr(<<Str("x"), Str("y")>>)>> >>)
    /\ rendered.result = "id: id: 7, name: x & y"

-----------------------------------------------------------------------------
(* Properties of detailToString on exceptions and scalars (checked under    *)
(* SpecDetail).                                                              *)

DetailRendered == rendered.called /\ rendered.debugFlag = addDebugInfoToMessage

\* C21 as stated: detailToString of a generic exception is its stack trace if
\* it has one, otherwise its message
C21_StackElseMessage ==
    (DetailRendered /\ detail.k = "Error") =>
        rendered.result =
            IF detail.stack # "" THEN detail.stack ELSE detail.message

\* C21 as amended: detailToString of a generic exception is its stack trace
\* if it has one, otherwise its default string conversion: "name: message",
\* the name alone when the message is empty, the message alone when the name
\* is empty
C21_StackElseToString ==
    (DetailRendered /\ detail.k = "Error") =>
        /\ detail.stack # "" => rendered.result = detail.stack
        /\ detail.stack = "" =>
            /\ Contains(rendered.result, detail.message)
            /\ Contains(rendered.result, detail.name)
            /\ (detail.name # "" /\ detail.message # "") =>
                rendered.result = detail.name \o ": " \o detail.message
            /\ Len(rendered.result) <=
                    Len(detail.name) + Len(detail.message) + 2

C21_Witness ==
    /\ DetailRendered
    /\ detail = Exc("TypeError", "boom", "")
    /\ rendered.result = "TypeError: boom"

\* C22: detailToString of a value that is not an object is its default
\* string conversion when the value is truthy and the empty string for every
\* falsy value (undefined, null, 0, false, the empty string)
C22_ScalarOrEmpty ==
    (DetailRendered
        /\ detail.k \in {"undefined", "null", "boolean", "number", "string"})
    =>
        /\ detail \in FalsyValues => rendered.result = ""
        /\ detail.k = "string" => rendered.result = detail.s
        /\ detail = Bool(TRUE) => rendered.result = "true"
        /\ detail = Num(7) => rendered.result = "7"
        /\ detail = Num(120) => rendered.result = "120"
        /\ Truthy(detail) => rendered.result = ToJSString(detail)

C22_Witness ==
    /\ DetailRendered
    /\ detail = Num(0)
    /\ rendered.result = ""

-----------------------------------------------------------------------------
(* Properties of the fallback of BaseError.toString (checked under          *)
(* SpecRender).                                                              *)

\* none of headline, details, debugInfo of the value passed is present
NothingPresent ==
    /\ err.k \in {"BaseError", "IBaseError"}
    /\ headline(err) = ""
    /\ ~Truthy(err.details) /\ ~Truthy(err.debugInfo)

\* C23: when none of headline, details, debugInfo is present,
\* BaseError.toString(e) is the name of e's constructor and, only when that
\* name is empty, e's default string conversion; it never returns the empty
\* string in that case
C23_FallbackToTypeName ==
    (out.called /\ NothingPresent) =>
        /\ err.cls # "" => ~out.thrown /\ out.result = err.cls
        /\ (err.cls = "" /\ err.k = "IBaseError") =>
            ~out.thrown /\ out.result = "[object Object]"
        /\ ~out.thrown => out.result # ""

C23_Witness ==
    /\ out.called /\ NothingPresent
    /\ err.cls = "CustomError" /\ err.details = Str("")
    /\ ~out.thrown /\ out.result = "CustomError"

\* C24: rendering terminates: for every error instance and every payload,
\* nested arrays, records and error instances and records that refer to
\* themselves included, toString() and detailToString complete and return a
\* string
C24_RenderingTerminates ==
    /\ out.called => ~out.thrown
    /\ rendered.called => ~rendered.thrown

-----------------------------------------------------------------------------
(* Properties of the debug flag (C25 checked under Spec, C26 under          *)
(* SpecRender).                                                              *)

\* C25: toString() reads the debug flag when it is called, not when the
\* instance was constructed: whatever assignments to the flag came before,
\* the output of a call on an instance with debugInfo includes the rendering
\* of the debugInfo exactly when the flag was true at that call
C25_FlagReadAtCall ==
    (out.called /\ IsBaseError(err) /\ Truthy(err.debugInfo)) =>
        (out.debugFlag <=>
            Contains(out.result, detailToString(err.debugInfo)))

\* the outcome of BaseError.toString(e) in the current state
ToStringOutcome(e) == Rendering(e, BaseError_toString(e))

\* C26: with the debug flag disabled debugInfo does not influence the
\* output: values equal in constructor, headline and details that differ
\* only in debugInfo have the same BaseError.toString
C26_DebugInfoWithoutInfluence ==
    (out.called /\ ~out.debugFlag /\ ~addDebugInfoToMessage) =>
        \A g \in DebugValues :
            LET other == ToStringOutcome([err EXCEPT !.debugInfo = g])
            IN /\ other.thrown = out.thrown
               /\ ~out.thrown => other.result = out.result

-----------------------------------------------------------------------------
(* Properties of the details part (checked under Spec). *)

\* what toString() returned after the headline
AfterHeadline ==
    SubSeq(out.result, Len(headline(err)) + 1, Len(out.result))

\* C27: the presence of details is decided by truthiness: with a non-empty
\* headline and no debug output toString() is exactly the headline when
\* details is falsy, and the headline followed by a newline and
\* detailToString(details) when details is truthy, an empty array or record
\* included, so that the output then differs from the headline
C27_DetailsByTruthiness ==
    (FlagAsAtCall /\ IsBaseError(err) /\ headline(err) # ""
        /\ ~(Truthy(err.debugInfo) /\ out.debugFlag)) =>
        /\ ~Truthy(err.details) => out.result = headline(err)
        /\ Truthy(err.details) =>
            /\ StartsWith(out.result, headline(err))
            /\ AfterHeadline \in
                OptionallyColorized("\n" \o detailToString(err.details))
            /\ out.result # headline(err)

\* C28: the headline of a UserError and of a DeviceOpError is determined by
\* the type tag and the details only, not by the category, componentName,
\* opName or deviceOS; when details is present its string form appears in
\* the headline and again in the details part of toString()
C28_HeadlineFromTypeAndDetails ==
    (FlagAsAtCall /\ IsBaseError(err)
        /\ err.cls \in {"UserError", "DeviceOpError"}) =>
        /\ err.cls = "UserError" =>
            \A c \in UserErrorCategories :
                headline([err EXCEPT !.category = c]) = headline(err)
        /\ err.cls = "DeviceOpError" =>
            \A c \in DeviceOpErrorCategories, n \in Names :
                headline([err EXCEPT !.category = c, !.componentName = n,
                                     !.opName = n, !.deviceOS = n])
                    = headline(err)
        /\ Truthy(err.details) =>
            /\ Contains(headline(err), ToJSString(err.details))
            /\ StartsWith(out.result, headline(err))
            /\ Contains(AfterHeadline, detailToString(err.details))

-----------------------------------------------------------------------------
(* Properties of the reference code and the type tag (checked under         *)
(* SpecConstruct).                                                           *)

\* the values Math.floor(Math.random() * n) takes over the values of
\* Math.random()
FloorsOfRandomTimes(n) == {(r * n) \div RandDenom : r \in 0..(RandDenom - 1)}

\* C29: each of the three digits of a reference code lies in 0..8, the digit
\* 9 never occurs, so that there are 26^3 * 9^3 reference codes and not
\* 26^3 * 10^3
C29_DigitsBelowNine ==
    IsBaseError(err) =>
        /\ \A i \in 3..5 :
            charAt(err.errorRef, i) \in DecimalDigits \ {"9"}
        /\ err.errorRef = "AAA000" =>
            /\ FloorsOfRandomTimes(9) = 0..8
            /\ FloorsOfRandomTimes(26) = 0..25
            /\ Cardinality(FloorsOfRandomTimes(26) \X FloorsOfRandomTimes(26)
                    \X FloorsOfRandomTimes(26)) = 17576
            /\ Cardinality(FloorsOfRandomTimes(9) \X FloorsOfRandomTimes(9)
                    \X FloorsOfRandomTimes(9)) = 729

C29_Witness ==
    /\ IsBaseError(err)
    /\ charAt(err.errorRef, 3) = "8"
    /\ charAt(err.errorRef, 4) = "4"
    /\ charAt(err.errorRef, 5) = "0"

\* the type tag each class passes to the constructor of BaseError
TypeOfClass ==
    [OpError |-> ErrorType.operation,
     NotImplementedError |-> ErrorType.operation,
     NoOpError |-> ErrorType.noOp,
     RuleViolationError |-> ErrorType.rule,
     SecurityRuleViolation |-> ErrorType.security,
     APICallError |-> ErrorType.apiCall,
     ConnectionError |-> ErrorType.connection,
     UserError |-> ErrorType.user,
     DeviceOpError |-> ErrorType.deviceOp,
     UnhandledRejection |-> ErrorType.unhandledRejection,
     UncaughtException |-> ErrorType.uncaughtException]

\* C30: the type tag of an instance is fixed by its class: OpError and
\* NotImplementedError have type operation, NoOpError noOp,
\* RuleViolationError rule, SecurityRuleViolation security, APICallError
\* apiCall, ConnectionError connection, UserError user, DeviceOpError
\* deviceOp, UnhandledRejection unhandledRejection, UncaughtException
\* uncaughtException; the tag does not tell NotImplementedError from OpError
C30_TypeFixedByClass ==
    IsBaseError(err) =>
        /\ err.cls \in DOMAIN TypeOfClass
        /\ err.type = TypeOfClass[err.cls]
        /\ err.cls \in {"OpError", "NotImplementedError"} <=>
                err.type = "operationError"

C30_Witness ==
    /\ IsBaseError(err)
    /\ err.cls = "NotImplementedError"
    /\ err.type = "operationError"

====
